---- MODULE Spec2Model ----
(***************************************************************************)
(* A model of the ReadTogether backend (server/app.py).                    *)
(*                                                                         *)
(*   - the /api/evaluate handler with normalize_words and align_words,     *)
(*     including the difflib.SequenceMatcher calls align_words makes       *)
(*     (__chain_b with its default autojunk heuristic, find_longest_match, *)
(*     get_matching_blocks, get_opcodes);                                  *)
(*   - the session handlers (signup, login, logout), POST /api/assignments *)
(*     and POST /api/coach.                                                *)
(*                                                                         *)
(* Texts are sequences of characters, a character being a one-element      *)
(* name: "a", "A", "!", " ", and "Sigma" / "sigma" / "fsigma" for the      *)
(* Greek capital sigma, small sigma and final small sigma, the one letter  *)
(* whose lowercase str.lower() picks by context.  Indices into word lists  *)
(* are Python's (0-based); a list element i is read as s[i + 1].           *)
(* Accuracy is kept in tenths of a percent: 1000 is 100.0.                 *)
(***************************************************************************)
EXTENDS Integers, Sequences, FiniteSets, TLC

VARIABLES
    request,      \* /api/evaluate: the JSON body received, as a list of at most one
    response,     \* /api/evaluate: the AlignmentReport answered, as a list of at most one
    users,        \* rows of the "users" table
    session,      \* per client: the Flask session (NoSession when empty)
    assignments,  \* rows of the "assignments" table, in insertion order
    insertedBy,   \* history: for each assignment row, the session of the request that inserted it
    reply,        \* the last HTTP reply of the session and assignment handlers
    coachRequest, \* /api/coach: the JSON body of the last request
    prompt,       \* /api/coach: the prompt sent to the AI service for it
    upstream,     \* /api/coach: the AI service's answer to it
    coachReply,   \* /api/coach: the handler's answer to it
    submissions,  \* rows of the "submissions" table, in insertion order
    inflight,     \* per worker: the POST /api/submissions request it is handling
    submitReply   \* the HTTP status of the latest reply to POST /api/submissions

vars == <<request, response, users, session, assignments, insertedBy, reply,
          coachRequest, prompt, upstream, coachReply, submissions, inflight, submitReply>>
submitVars == <<submissions, inflight, submitReply>>
evalVars == <<request, response>>
webVars == <<users, session, assignments, insertedBy, reply>>
coachVars == <<coachRequest, prompt, upstream, coachReply>>

----------------------------------------------------------------------------
(* Bounds of the model *)

\* longest free-form target, in characters
MaxChars == 3
\* longest free-form transcript, in characters
MaxTranscriptChars == 1
\* longest passage of one-letter words, in words
MaxWords == 5
\* difflib's autojunk heuristic applies to a second sequence of at least this many elements
AutoJunkMin == 200

NoRequest == <<>>
NoResponse == <<>>

----------------------------------------------------------------------------
(* Characters, as Python's str and re classify them *)

Chars == {"a", "A", "Sigma", "!", " "}
Letters == {"a", "b"}

\* re's \w on str patterns: alphanumerics and the underscore
WordChars == {"a", "b", "c", "A", "Sigma", "sigma", "fsigma", "_"}
\* re's \s and str.split()'s separator
SpaceChars == {" "}
\* Unicode property Cased
CasedChars == {"a", "b", "c", "A", "Sigma", "sigma", "fsigma"}
\* Unicode property Case_Ignorable
CaseIgnorableChars == {"'", "."}

\* the simple (context-free) lowercase mapping of one character
ToLower(c) ==
    CASE c = "A" -> "a"
      [] c = "Sigma" -> "sigma"
      [] OTHER -> c

RECURSIVE SkipBack(_, _)
\* the nearest position before j + 1 holding a character that is not case-ignorable, or 0
SkipBack(s, j) ==
    IF j < 1 THEN 0
    ELSE IF s[j] \notin CaseIgnorableChars THEN j
    ELSE SkipBack(s, j - 1)

RECURSIVE SkipForward(_, _)
\* the nearest position from j on holding a character that is not case-ignorable, or Len(s) + 1
SkipForward(s, j) ==
    IF j > Len(s) THEN Len(s) + 1
    ELSE IF s[j] \notin CaseIgnorableChars THEN j
    ELSE SkipForward(s, j + 1)

\* str.lower()'s rule for a capital sigma at position i: it becomes a final sigma when a
\* cased letter precedes it and none follows it, case-ignorable characters skipped
FinalSigma(s, i) ==
    LET j == SkipBack(s, i - 1)
        k == SkipForward(s, i + 1)
    IN  /\ j >= 1
        /\ s[j] \in CasedChars
        /\ (k = Len(s) + 1 \/ s[k] \notin CasedChars)

\* s.lower()
lower(s) ==
    [i \in 1..Len(s) |->
        IF s[i] = "Sigma"
        THEN (IF FinalSigma(s, i) THEN "fsigma" ELSE "sigma")
        ELSE ToLower(s[i])]

IsKept(c) == c \in WordChars \/ c \in SpaceChars

\* re.sub(r"[^\w\s]", "", s)
StripPunctuation(s) == SelectSeq(s, IsKept)

\* str.split(): the maximal runs of characters that are not whitespace, in order.
\* The k-th word runs from the k-th position that starts a run to the k-th that ends one.
split(s) ==
    LET positions == [n \in 1..Len(s) |-> n]
        starts == SelectSeq(positions,
                            LAMBDA n : s[n] \notin SpaceChars
                                       /\ (n = 1 \/ s[n - 1] \in SpaceChars))
        ends == SelectSeq(positions,
                          LAMBDA n : s[n] \notin SpaceChars
                                     /\ (n = Len(s) \/ s[n + 1] \in SpaceChars))
    IN  [k \in 1..Len(starts) |-> SubSeq(s, starts[k], ends[k])]

normalize_words(s) == split(StripPunctuation(lower(s)))

----------------------------------------------------------------------------
(* difflib.SequenceMatcher(a=t_words, b=r_words), as align_words constructs it:   *)
(* isjunk is None and autojunk keeps its default, True.  A match is a record      *)
(* [i, j, size]: a[i : i + size] == b[j : j + size].                              *)

Range(s) == {s[n] : n \in 1..Len(s)}

\* the positions of elt in b, ascending: the list __chain_b builds for elt
IndicesOf(b, elt) ==
    SelectSeq([n \in 1..Len(b) |-> n - 1], LAMBDA j : b[j + 1] = elt)

\* SequenceMatcher.bjunk: without an isjunk function nothing is junk
bjunk == {}

isbjunk(x) == x \in bjunk

\* SequenceMatcher.bpopular: in a b of at least AutoJunkMin elements, those that
\* occur more than len(b) // 100 + 1 times
bpopular(b) ==
    IF Len(b) >= AutoJunkMin
    THEN LET ntest == (Len(b) \div 100) + 1
         IN  {elt \in Range(b) : Len(IndicesOf(b, elt)) > ntest}
    ELSE {}

\* SequenceMatcher.__chain_b: b2j, with the junk and popular elements deleted
chain_b(b) ==
    [elt \in (Range(b) \ bjunk) \ bpopular(b) |-> IndicesOf(b, elt)]

EmptyMap == [j \in {} |-> 0]

\* dict.get(j, 0)
GetOr0(m, j) == IF j \in DOMAIN m THEN m[j] ELSE 0

RECURSIVE flm_row(_, _, _, _, _, _, _, _)
\* find_longest_match's inner loop, "for j in b2j.get(a[i], nothing)", from the
\* n-th element of js on
flm_row(js, n, i, blo, bhi, j2len, newj2len, best) ==
    IF n > Len(js) THEN [j2len |-> newj2len, best |-> best]
    ELSE LET j == js[n] IN
         IF j < blo THEN flm_row(js, n + 1, i, blo, bhi, j2len, newj2len, best)
         ELSE IF j >= bhi THEN [j2len |-> newj2len, best |-> best]
         ELSE LET k == GetOr0(j2len, j - 1) + 1
                  nbest == IF k > best.size
                           THEN [i |-> i - k + 1, j |-> j - k + 1, size |-> k]
                           ELSE best
              IN  flm_row(js, n + 1, i, blo, bhi, j2len, (j :> k) @@ newj2len, nbest)

RECURSIVE flm_rows(_, _, _, _, _, _, _)
\* find_longest_match's outer loop, "for i in range(lo, hi)", run from the state st
\* (j2len and the best match so far).  The iterations run in order; a range of
\* more than one is run as its two halves, which keeps the evaluation shallow.
flm_rows(a, b2j, lo, hi, blo, bhi, st) ==
    IF lo >= hi THEN st
    ELSE IF hi = lo + 1
    THEN LET js == IF a[lo + 1] \in DOMAIN b2j THEN b2j[a[lo + 1]] ELSE <<>>
         IN  flm_row(js, 1, lo, blo, bhi, st.j2len, EmptyMap, st.best)
    ELSE LET mid == (lo + hi) \div 2
             first == flm_rows(a, b2j, lo, mid, blo, bhi, st)
         IN  \* the test is always true: it has the first half evaluated before the second
             IF first.best.size >= 0
             THEN flm_rows(a, b2j, mid, hi, blo, bhi, first)
             ELSE first

Min(x, y) == IF x <= y THEN x ELSE y

\* "while besti > alo and bestj > blo and [not] isbjunk(b[bestj-1]) and
\*  a[besti-1] == b[bestj-1]": the loop runs e times, e being the first count at
\* which its condition fails; junk says which of the two loops this is
ExtendBack(a, b, alo, blo, junk, m) ==
    LET Holds(e) == /\ m.i - e > alo
                    /\ m.j - e > blo
                    /\ isbjunk(b[(m.j - e - 1) + 1]) = junk
                    /\ a[(m.i - e - 1) + 1] = b[(m.j - e - 1) + 1]
        e == CHOOSE n \in 0..Min(m.i - alo, m.j - blo) :
                 ~Holds(n) /\ \A k \in 0..(n - 1) : Holds(k)
    IN  [i |-> m.i - e, j |-> m.j - e, size |-> m.size + e]

\* "while besti+bestsize < ahi and bestj+bestsize < bhi and [not] isbjunk(b[bestj+bestsize])
\*  and a[besti+bestsize] == b[bestj+bestsize]"
ExtendForward(a, b, ahi, bhi, junk, m) ==
    LET Holds(e) == /\ m.i + m.size + e < ahi
                    /\ m.j + m.size + e < bhi
                    /\ isbjunk(b[(m.j + m.size + e) + 1]) = junk
                    /\ a[(m.i + m.size + e) + 1] = b[(m.j + m.size + e) + 1]
        e == CHOOSE n \in 0..Min(ahi - (m.i + m.size), bhi - (m.j + m.size)) :
                 ~Holds(n) /\ \A k \in 0..(n - 1) : Holds(k)
    IN  [m EXCEPT !.size = m.size + e]

\* SequenceMatcher.find_longest_match(alo, ahi, blo, bhi)
find_longest_match(a, b, b2j, alo, ahi, blo, bhi) ==
    LET m0 == flm_rows(a, b2j, alo, ahi, blo, bhi,
                       [j2len |-> EmptyMap, best |-> [i |-> alo, j |-> blo, size |-> 0]]).best
        m1 == ExtendBack(a, b, alo, blo, FALSE, m0)
        m2 == ExtendForward(a, b, ahi, bhi, FALSE, m1)
        m3 == ExtendBack(a, b, alo, blo, TRUE, m2)
    IN  ExtendForward(a, b, ahi, bhi, TRUE, m3)

RECURSIVE gmb_loop(_, _, _, _, _)
\* get_matching_blocks' "while queue" loop; the queue is popped at its end
gmb_loop(a, b, b2j, queue, blocks) ==
    IF queue = <<>> THEN blocks
    ELSE LET top == queue[Len(queue)]
             rest == SubSeq(queue, 1, Len(queue) - 1)
             x == find_longest_match(a, b, b2j, top.alo, top.ahi, top.blo, top.bhi)
             q1 == IF top.alo < x.i /\ top.blo < x.j
                   THEN Append(rest, [alo |-> top.alo, ahi |-> x.i, blo |-> top.blo, bhi |-> x.j])
                   ELSE rest
             q2 == IF x.i + x.size < top.ahi /\ x.j + x.size < top.bhi
                   THEN Append(q1, [alo |-> x.i + x.size, ahi |-> top.ahi,
                                    blo |-> x.j + x.size, bhi |-> top.bhi])
                   ELSE q1
         IN  IF x.size # 0
             THEN gmb_loop(a, b, b2j, q2, Append(blocks, x))
             ELSE gmb_loop(a, b, b2j, rest, blocks)

\* the order of the tuples (i, j, size)
MatchLess(x, y) ==
    \/ x.i < y.i
    \/ x.i = y.i /\ x.j < y.j
    \/ x.i = y.i /\ x.j = y.j /\ x.size < y.size

RECURSIVE InsertSorted(_, _)
InsertSorted(sorted, x) ==
    IF sorted = <<>> THEN <<x>>
    ELSE IF MatchLess(x, Head(sorted)) THEN <<x>> \o sorted
    ELSE <<Head(sorted)>> \o InsertSorted(Tail(sorted), x)

RECURSIVE SortMatches(_)
\* matching_blocks.sort()
SortMatches(blocks) ==
    IF blocks = <<>> THEN <<>>
    ELSE InsertSorted(SortMatches(Tail(blocks)), Head(blocks))

RECURSIVE Collapse(_, _, _, _)
\* get_matching_blocks' loop that merges adjacent blocks, from the n-th block on;
\* cur is (i1, j1, k1)
Collapse(blocks, n, cur, non_adjacent) ==
    IF n > Len(blocks)
    THEN (IF cur.size # 0 THEN Append(non_adjacent, cur) ELSE non_adjacent)
    ELSE LET x == blocks[n] IN
         IF cur.i + cur.size = x.i /\ cur.j + cur.size = x.j
         THEN Collapse(blocks, n + 1, [cur EXCEPT !.size = cur.size + x.size], non_adjacent)
         ELSE Collapse(blocks, n + 1, x,
                       IF cur.size # 0 THEN Append(non_adjacent, cur) ELSE non_adjacent)

\* SequenceMatcher.get_matching_blocks()
get_matching_blocks(a, b) ==
    LET la == Len(a)
        lb == Len(b)
        found == gmb_loop(a, b, chain_b(b), <<[alo |-> 0, ahi |-> la, blo |-> 0, bhi |-> lb]>>, <<>>)
        non_adjacent == Collapse(SortMatches(found), 1, [i |-> 0, j |-> 0, size |-> 0], <<>>)
    IN  Append(non_adjacent, [i |-> la, j |-> lb, size |-> 0])

RECURSIVE opcodes_loop(_, _, _, _, _)
\* get_opcodes' loop over the matching blocks, from the n-th block on
opcodes_loop(blocks, n, i, j, answer) ==
    IF n > Len(blocks) THEN answer
    ELSE LET m == blocks[n]
             tag == IF i < m.i /\ j < m.j THEN "replace"
                    ELSE IF i < m.i THEN "delete"
                    ELSE IF j < m.j THEN "insert"
                    ELSE ""
             a1 == IF tag # ""
                   THEN Append(answer, [tag |-> tag, i1 |-> i, i2 |-> m.i, j1 |-> j, j2 |-> m.j])
                   ELSE answer
             a2 == IF m.size # 0
                   THEN Append(a1, [tag |-> "equal", i1 |-> m.i, i2 |-> m.i + m.size,
                                    j1 |-> m.j, j2 |-> m.j + m.size])
                   ELSE a1
         IN  opcodes_loop(blocks, n + 1, m.i + m.size, m.j + m.size, a2)

\* SequenceMatcher.get_opcodes()
get_opcodes(a, b) == opcodes_loop(get_matching_blocks(a, b), 1, 0, 0, <<>>)

----------------------------------------------------------------------------
(* align_words *)

\* OpcodeWords with the else branch narrowed to "elif tag == 'replace'": the words of
\* a delete opcode are appended nowhere
OpcodeWords_SkipDelete(t_words, op) ==
    IF op.tag = "delete" THEN <<>>
    ELSE [n \in 1..(op.i2 - op.i1) |->
            [word |-> t_words[op.i1 + n],
             status |-> IF op.tag = "equal" THEN "ok" ELSE "misread"]]

\* OpcodeWords with the test written "if tag != 'replace'": the words of a delete
\* opcode are reported ok
OpcodeWords_DeleteOk(t_words, op) ==
    [n \in 1..(op.i2 - op.i1) |->
        [word |-> t_words[op.i1 + n],
         status |-> IF op.tag # "replace" THEN "ok" ELSE "misread"]]

\* OpcodeWords with the test written "if tag != 'delete'": the words of a replace
\* opcode are reported ok
OpcodeWords_ReplaceOk(t_words, op) ==
    [n \in 1..(op.i2 - op.i1) |->
        [word |-> t_words[op.i1 + n],
         status |-> IF op.tag # "delete" THEN "ok" ELSE "misread"]]

\* the entries the loop body appends for one opcode: t_words[i1:i2], "ok" under
\* an equal opcode and "misread" under any other
OpcodeWords(t_words, op) ==
    [n \in 1..(op.i2 - op.i1) |->
        [word |-> t_words[op.i1 + n],
         status |-> IF op.tag = "equal" THEN "ok" ELSE "misread"]]

RECURSIVE result_loop(_, _, _, _)
\* "for tag, i1, i2, j1, j2 in sm.get_opcodes()", from the n-th opcode on
result_loop(t_words, opcodes, n, result) ==
    IF n > Len(opcodes) THEN result
    ELSE result_loop(t_words, opcodes, n + 1, result \o OpcodeWords(t_words, opcodes[n]))

\* sum(1 for w in result if w["status"] == "ok")
CountOk(result) == Cardinality({n \in 1..Len(result) : result[n].status = "ok"})

Max(x, y) == IF x >= y THEN x ELSE y

\* round(num / den, 0) for num >= 0 and den > 0, as Python rounds a quotient that
\* falls exactly half way: to the even neighbour
RoundHalfEven(num, den) ==
    LET q == num \div den
        r == num % den
    IN  IF 2 * r < den THEN q
        ELSE IF 2 * r > den THEN q + 1
        ELSE IF q % 2 = 0 THEN q ELSE q + 1

\* Accuracy with the zero guard written as "len(result) + 1"
Accuracy_PlusOne(result) == RoundHalfEven(1000 * CountOk(result), Len(result) + 1)

\* Accuracy with an empty result scored as a perfect reading
Accuracy_EmptyPerfect(result) ==
    IF Len(result) = 0 THEN 1000
    ELSE RoundHalfEven(1000 * CountOk(result), Len(result))

\* Accuracy with the ok entries set against the misread ones instead of all entries
Accuracy_OverMisread(result) ==
    RoundHalfEven(1000 * CountOk(result), Max(1, Len(result) - CountOk(result)))

\* round(100.0 * correct / max(1, len(result)), 1), in tenths.  A quotient half way
\* between two tenths needs 16 to divide len(result); below 2000 entries it is then
\* a multiple of 0.25, which a float holds exactly, so it goes to the even tenth.
Accuracy(result) == RoundHalfEven(1000 * CountOk(result), Max(1, Len(result)))

align_words(target_text, transcript_text) ==
    LET t_words == normalize_words(target_text)
        r_words == normalize_words(transcript_text)
        result == result_loop(t_words, get_opcodes(t_words, r_words), 1, <<>>)
    IN  [words |-> result, accuracy |-> Accuracy(result)]

----------------------------------------------------------------------------
(* POST /api/evaluate *)

SeqsUpTo(S, n) == UNION {[1..k -> S] : k \in 0..n}

\* the one-letter words ls, one space between two
JoinLetters(ls) ==
    [k \in 1..(2 * Len(ls) - 1) |-> IF k % 2 = 1 THEN ls[(k + 1) \div 2] ELSE " "]

\* every text of at most MaxChars characters
CharTexts == SeqsUpTo(Chars, MaxChars)
\* every text of at most MaxTranscriptChars characters
CharTranscripts == SeqsUpTo(Chars, MaxTranscriptChars)
\* every passage of at most MaxWords one-letter words
WordTexts == {JoinLetters(ls) : ls \in SeqsUpTo(Letters, MaxWords)}
\* a passage long enough for difflib's autojunk heuristic: one word, AutoJunkMin times
LongTexts == {JoinLetters([n \in 1..AutoJunkMin |-> "a"])}

EmptyBody == [k \in {} |-> <<>>]

\* the JSON bodies a client sends
Requests ==
    {[target |-> t, transcript |-> r] : t \in CharTexts, r \in CharTranscripts}
        \cup {[target |-> t, transcript |-> r] : t, r \in WordTexts \cup LongTexts}
        \cup {[target |-> t] : t \in CharTexts}
        \cup {[transcript |-> r] : r \in CharTranscripts}
        \cup {EmptyBody}

\* body.get(key, default)
BodyGet(body, key, default) == IF key \in DOMAIN body THEN body[key] ELSE default

\* evaluate(): the handler answers the request received
Evaluate ==
    /\ request # NoRequest
    /\ response = NoResponse
    /\ LET body == request[1]
           target == BodyGet(body, "target", <<>>)
           transcript == BodyGet(body, "transcript", <<>>)
       IN  response' = <<align_words(target, transcript)>>
    /\ UNCHANGED <<request, webVars, coachVars, submitVars>>

----------------------------------------------------------------------------
(* The answered request, for the properties of /api/evaluate *)

Answered == response # NoResponse
Target == BodyGet(request[1], "target", <<>>)
Transcript == BodyGet(request[1], "transcript", <<>>)
Report == response[1]
TWords == normalize_words(Target)
RWords == normalize_words(Transcript)
ReportWords == [n \in 1..Len(Report.words) |-> Report.words[n].word]
OkPositions == {n \in 1..Len(Report.words) : Report.words[n].status = "ok"}
AllStatus(st) == \A n \in 1..Len(Report.words) : Report.words[n].status = st


----------------------------------------------------------------------------
(* Sessions, users and assignments *)

\* most rows the model lets each table hold
MaxUsers == 2
MaxAssignments == 2

Clients == {"c1", "c2"}
Emails == {"ann@x", "bob@x"}
Passwords == {"pw1", "pw2"}
\* what a form or JSON field holds when the client leaves it out
Missing == ""

\* session.clear(), and the session of a client that never logged in
NoSession == [k \in {} |-> ""]
NoReply == [status |-> 0, body |-> "none"]

\* generate_password_hash(password); check_password_hash(h, p) is h = PasswordHash(p)
PasswordHash(password) == <<"hash", password>>

\* supabase.table("users").select("*").eq("email", email).execute().data
UsersByEmail(email) == SelectSeq(users, LAMBDA u : u.email = email)

\* the four session keys a successful signup or login sets
SessionOf(user) ==
    [user_id |-> user.id, full_name |-> user.full_name, email |-> user.email, role |-> user.role]

\* signup(): POST /api/signup by client c; dbUp is whether the store answers
Signup(c, full_name, email, password, role, dbUp) ==
    /\ IF Missing \in {full_name, email, password, role}
       THEN /\ reply' = [status |-> 400, body |-> "Missing required fields"]
            /\ UNCHANGED <<users, session>>
       ELSE IF role \notin {"student", "teacher"}
       THEN /\ reply' = [status |-> 400, body |-> "Invalid role"]
            /\ UNCHANGED <<users, session>>
       ELSE IF ~dbUp
       THEN /\ reply' = [status |-> 500, body |-> "error"]
            /\ UNCHANGED <<users, session>>
       ELSE IF UsersByEmail(email) # <<>>
       THEN /\ reply' = [status |-> 400, body |-> "Email already registered"]
            /\ UNCHANGED <<users, session>>
       ELSE /\ Len(users) < MaxUsers
            /\ LET user == [id |-> Len(users) + 1, full_name |-> full_name, email |-> email,
                            password_hash |-> PasswordHash(password), role |-> role]
               IN  /\ users' = Append(users, user)
                   /\ session' = [session EXCEPT ![c] = SessionOf(user)]
            /\ reply' = [status |-> 201, body |-> "Account created successfully"]
    /\ UNCHANGED <<assignments, insertedBy, evalVars, coachVars, submitVars>>

\* login(): POST /api/login by client c
Login(c, email, password, dbUp) ==
    /\ IF email = Missing \/ password = Missing
       THEN /\ reply' = [status |-> 400, body |-> "Email and password required"]
            /\ UNCHANGED session
       ELSE IF ~dbUp
       THEN /\ reply' = [status |-> 500, body |-> "error"]
            /\ UNCHANGED session
       ELSE IF UsersByEmail(email) = <<>>
       THEN /\ reply' = [status |-> 401, body |-> "Invalid email or password"]
            /\ UNCHANGED session
       ELSE LET user == UsersByEmail(email)[1] IN
            IF user.password_hash # PasswordHash(password)
            THEN /\ reply' = [status |-> 401, body |-> "Invalid email or password"]
                 /\ UNCHANGED session
            ELSE /\ session' = [session EXCEPT ![c] = SessionOf(user)]
                 /\ reply' = [status |-> 200, body |-> "Login successful"]
    /\ UNCHANGED <<users, assignments, insertedBy, evalVars, coachVars, submitVars>>

\* logout(): POST /api/logout by client c
Logout(c) ==
    /\ session' = [session EXCEPT ![c] = NoSession]
    /\ reply' = [status |-> 200, body |-> "Logged out successfully"]
    /\ UNCHANGED <<users, assignments, insertedBy, evalVars, coachVars, submitVars>>

\* extract_text_from_pdf(pdf_file): the text of a readable PDF with text, None for
\* one PdfReader cannot read, "" for one without text
ExtractText(pdf) ==
    CASE pdf = "story.pdf" -> "Once upon a time."
      [] pdf = "blank.pdf" -> ""
      [] OTHER -> "None"

\* create_assignment(): POST /api/assignments by client c.  The route carries no
\* decorator and the handler reads no session key.  min_accuracy is the form field
\* as sent; float() accepts the default, 80, and raises on "high".
CreateAssignment(c, title, grade_level, min_accuracy, pdf, dbUp) ==
    /\ LET extracted == IF pdf # Missing THEN ExtractText(pdf) ELSE "None"
           min_acc == IF min_accuracy = Missing THEN "80" ELSE min_accuracy
       IN  IF pdf # Missing /\ extracted \in {"None", ""}
           THEN /\ reply' = [status |-> 400, body |-> "Failed to extract text from PDF"]
                /\ UNCHANGED <<assignments, insertedBy>>
           ELSE IF min_acc = "high" \/ ~dbUp
           THEN /\ reply' = [status |-> 500, body |-> "error"]
                /\ UNCHANGED <<assignments, insertedBy>>
           ELSE /\ Len(assignments) < MaxAssignments
                /\ assignments' = Append(assignments,
                       [id |-> Len(assignments) + 1,
                        title |-> title,
                        grade_level |-> grade_level,
                        text |-> IF extracted \in {"None", ""} THEN "No text provided"
                                 ELSE extracted,
                        pdf_filename |-> IF pdf # Missing THEN pdf ELSE "None",
                        min_accuracy |-> min_acc])
                /\ insertedBy' = Append(insertedBy, session[c])
                /\ reply' = [status |-> 201, body |-> "assignment"]
    /\ UNCHANGED <<users, session, evalVars, coachVars, submitVars>>

----------------------------------------------------------------------------
(* POST /api/coach *)

EmptyDict == [k \in {} |-> ""]
NoCoachReply == [status |-> 0, body |-> EmptyDict]
NoUpstream == [status |-> 0, kind |-> "none", content |-> EmptyDict]

\* the JSON bodies a client sends: grade_level and misreads vary
CoachRequests ==
    {[target |-> "The cat sat", transcript |-> "The cat sit",
      misreads |-> m, grade_level |-> g] :
        m \in {<<>>, <<"sat">>, <<"sat", "mat">>}, g \in {Missing, "K", "1", "2", "5"}}

CoachKeys == {"encouragement", "tips", "questions"}

\* what the AI service can answer.  kind says what the body of a 200 answer is:
\*   not_json          r.json() raises
\*   no_choices        JSON without choices[0].message.content
\*   content_not_json  the content is a string json.loads rejects
\*   content_array     the content is a JSON array
\*   content_null      the content is null
\*   content_object    the content is a JSON object, holding the keys of content
\* and a status of 400 or more comes with an error body.  no_response is a
\* request that raised in client.post (no connection, a timeout).
Upstreams ==
    {[status |-> 0, kind |-> "no_response", content |-> EmptyDict]}
        \cup {[status |-> st, kind |-> "error_body", content |-> EmptyDict] :
                 st \in {401, 429, 500}}
        \cup {[status |-> 200, kind |-> k, content |-> EmptyDict] :
                 k \in {"not_json", "no_choices", "content_not_json",
                        "content_array", "content_null"}}
        \cup {[status |-> 200, kind |-> "content_object",
               content |-> [k \in keys |-> <<"from the model">>]] :
                 keys \in SUBSET CoachKeys}

\* the prompt coach() builds, as the list of its parts
CoachPrompt(body) ==
    LET grade_level == body.grade_level
        grade_desc == CASE grade_level = "K" -> <<"Kindergarten">>
                        [] grade_level = "1" -> <<"1st grade">>
                        [] grade_level = "2" -> <<"2nd grade">>
                        [] OTHER -> <<"grade ", grade_level>>
        tutor_desc == IF grade_level # Missing
                      THEN <<"You are a kind reading tutor for a ">> \o grade_desc \o <<" student.">>
                      ELSE <<"You are a kind reading tutor.">>
    IN  [tutor_desc |-> tutor_desc,
         target |-> body.target,
         transcript |-> body.transcript,
         misread_words |-> IF body.misreads # <<>> THEN body.misreads ELSE <<"none">>]

\* the three parsed.setdefault(key, default) calls
SetDefaults(parsed) ==
    [k \in DOMAIN parsed \cup CoachKeys |->
        IF k \in DOMAIN parsed THEN parsed[k]
        ELSE IF k = "encouragement" THEN <<"Great reading!">>
        ELSE <<>>]

\* the fallback of the except branch
Fallback ==
    [encouragement |-> <<"Nice reading! Keep it up.">>, tips |-> <<>>, questions |-> <<>>]

\* coach()'s answer once the AI service answered r
CoachAnswer(r) ==
    IF r.kind = "no_response"
    THEN [status |-> 500, body |-> [error |-> <<"Internal Server Error">>]]
    ELSE IF r.status >= 400
    THEN [status |-> 500, body |-> [error |-> <<"OpenAI API error">>]]
    ELSE IF r.kind = "content_object"
    THEN [status |-> 200, body |-> SetDefaults(r.content)]
    ELSE [status |-> 200, body |-> Fallback]

\* coach(): POST /api/coach with the body given, the AI service answering r
Coach(body, r) ==
    /\ coachRequest' = body
    /\ prompt' = <<CoachPrompt(body)>>
    /\ upstream' = r
    /\ coachReply' = CoachAnswer(r)
    /\ UNCHANGED <<evalVars, webVars, submitVars>>

----------------------------------------------------------------------------
(* POST /api/submissions.  The server handles requests concurrently, one worker *)
(* each; a handler's two calls to the store, the select and then the update or  *)
(* insert, are two steps, and other workers' steps may fall between them.        *)

\* most rows the model lets the submissions table hold
MaxSubmissions == 2

Workers == {"w1", "w2"}
Idle == [phase |-> "idle"]

\* the rows of submissions with this assignment_id and user_id:
\* .eq("assignment_id", assignment_id).eq("user_id", user_id)
Matching(rows, assignment_id, user_id) ==
    SelectSeq(rows, LAMBDA r : r.assignment_id = assignment_id /\ r.user_id = user_id)

\* create_or_update_submission() up to and including the select: login_required
\* redirects a client without a session; otherwise the handler reads the body and
\* the session and asks the store for the existing rows
SubmitCheck(w, c, assignment_id, accuracy, submitted) ==
    /\ inflight[w] = Idle
    /\ IF "user_id" \notin DOMAIN session[c]
       THEN /\ submitReply' = 302
            /\ UNCHANGED inflight
       ELSE /\ inflight' = [inflight EXCEPT ![w] =
                   [phase |-> "selected",
                    assignment_id |-> assignment_id,
                    accuracy |-> accuracy,
                    words_missed |-> <<>>,
                    submitted |-> submitted,
                    user_id |-> session[c].user_id,
                    student_name |-> session[c].full_name,
                    existing |-> Matching(submissions, assignment_id, session[c].user_id) # <<>>]]
            /\ UNCHANGED submitReply
    /\ UNCHANGED <<submissions, evalVars, webVars, coachVars>>

\* create_or_update_submission() from "if existing.data" on: the update of the
\* matching rows, or the insert of a new row; dbUp is whether the store answers
SubmitWrite(w, dbUp) ==
    /\ inflight[w] # Idle
    /\ LET q == inflight[w] IN
       IF ~dbUp
       THEN /\ submitReply' = 500
            /\ UNCHANGED submissions
       ELSE IF q.existing
       THEN /\ submissions' =
                   [n \in 1..Len(submissions) |->
                       IF submissions[n].assignment_id = q.assignment_id
                          /\ submissions[n].user_id = q.user_id
                       THEN [submissions[n] EXCEPT !.accuracy = q.accuracy,
                                                   !.words_missed = q.words_missed,
                                                   !.submitted = q.submitted]
                       ELSE submissions[n]]
            /\ submitReply' = 200
       ELSE /\ Len(submissions) < MaxSubmissions
            /\ submissions' = Append(submissions,
                   [id |-> Len(submissions) + 1,
                    assignment_id |-> q.assignment_id,
                    user_id |-> q.user_id,
                    student_name |-> q.student_name,
                    accuracy |-> q.accuracy,
                    words_missed |-> q.words_missed,
                    submitted |-> q.submitted])
            /\ submitReply' = 201
    /\ inflight' = [inflight EXCEPT ![w] = Idle]
    /\ UNCHANGED <<evalVars, webVars, coachVars>>

----------------------------------------------------------------------------
(* Specifications *)

InitEval ==
    /\ request = NoRequest
    /\ response = NoResponse

InitWeb ==
    /\ users = <<>>
    /\ session = [c \in Clients |-> NoSession]
    /\ assignments = <<>>
    /\ insertedBy = <<>>
    /\ reply = NoReply

InitSubmit ==
    /\ submissions = <<>>
    /\ inflight = [w \in Workers |-> Idle]
    /\ submitReply = 0

InitCoach ==
    /\ coachRequest = EmptyDict
    /\ prompt = <<>>
    /\ upstream = NoUpstream
    /\ coachReply = NoCoachReply

\* one /api/evaluate request, received and not yet answered
Init ==
    /\ request \in {<<body>> : body \in Requests}
    /\ response = NoResponse
    /\ InitWeb
    /\ InitCoach
    /\ InitSubmit

Next == Evaluate

Spec == Init /\ [][Next]_vars

\* the session and assignment handlers, called in any order by any client
InitSessions == InitEval /\ InitWeb /\ InitCoach /\ InitSubmit

NextWeb ==
    \/ \E c \in Clients, full_name \in {"Ann"}, email \in Emails,
          password \in {"pw1", Missing}, role \in {"student", "teacher", "admin"},
          dbUp \in BOOLEAN :
           Signup(c, full_name, email, password, role, dbUp)
    \/ \E c \in Clients, email \in Emails \cup {Missing}, password \in Passwords \cup {Missing},
          dbUp \in BOOLEAN :
           Login(c, email, password, dbUp)
    \/ \E c \in Clients : Logout(c)
    \/ \E c \in Clients, title \in {"Reading 1"}, grade_level \in {"2"},
          min_accuracy \in {Missing, "high"},
          pdf \in {Missing, "story.pdf", "blank.pdf", "broken.pdf"}, dbUp \in BOOLEAN :
           CreateAssignment(c, title, grade_level, min_accuracy, pdf, dbUp)

SpecWeb == InitSessions /\ [][NextWeb]_vars

\* /api/coach, called again and again
NextCoach == \E body \in CoachRequests, r \in Upstreams : Coach(body, r)

SpecCoach == InitSessions /\ [][NextCoach]_vars

\* a student signs up and logs in, from either client, and workers handle the
\* clients' POST /api/submissions requests step by step, in any interleaving
NextSubmit ==
    \/ \E c \in Clients : Signup(c, "Ann", "ann@x", "pw1", "student", TRUE)
    \/ \E c \in Clients : Login(c, "ann@x", "pw1", TRUE)
    \/ \E w \in Workers, c \in Clients, assignment_id \in {1, 2}, accuracy \in {500, 1000} :
           SubmitCheck(w, c, assignment_id, accuracy, FALSE)
    \/ \E w \in Workers, dbUp \in BOOLEAN : SubmitWrite(w, dbUp)

SpecSubmit == InitSessions /\ [][NextSubmit]_vars

----------------------------------------------------------------------------
(* Properties of /api/evaluate, checked under Spec *)

\* C1: the word fields of align_words(target, transcript)["words"], read in order,
\* are exactly normalize_words(target): the same length and the same word at every
\* position, whatever the transcript holds.
C1_WordsAreTargetWords ==
    Answered => ReportWords = TWords

\* C1's case: a transcript with a word the target does not have, and a target of
\* two words or more
C1_Witness ==
    /\ Answered
    /\ Len(TWords) >= 2
    /\ \E n \in 1..Len(RWords) : RWords[n] \notin Range(TWords)
    /\ Len(RWords) > Len(TWords)
    /\ Len(Report.words) = Len(TWords)

\* C2 as stated: for every target string, align_words(target, target) marks every
\* word ok and returns accuracy 100.0.
C2_SelfAlignmentPerfect ==
    (Answered /\ Transcript = Target) => (AllStatus("ok") /\ Report.accuracy = 1000)

\* C2 as amended: for every target string that normalizes to at least one word,
\* align_words(target, target) marks every word ok and returns accuracy 100.0.
C2_SelfAlignmentPerfectNonEmpty ==
    (Answered /\ Transcript = Target /\ TWords # <<>>)
        => (AllStatus("ok") /\ Len(Report.words) = Len(TWords) /\ Report.accuracy = 1000)

\* C2's case: a passage of several words, one of them repeated, aligned with itself
C2_Witness ==
    /\ Answered
    /\ Transcript = Target
    /\ Len(TWords) >= 3
    /\ \E m, n \in 1..Len(TWords) : m # n /\ TWords[m] = TWords[n]
    /\ \E m, n \in 1..Len(TWords) : TWords[m] # TWords[n]
    /\ Report.accuracy = 1000

\* C5: if the target normalizes to the empty sequence then, for every transcript,
\* words is [] and accuracy is 0.0.
C5_EmptyTarget ==
    (Answered /\ TWords = <<>>) => (Report.words = <<>> /\ Report.accuracy = 0)

\* C5's case: a target of punctuation only and a transcript with words
C5_Witness ==
    /\ Answered
    /\ Target # <<>>
    /\ TWords = <<>>
    /\ RWords # <<>>
    /\ Report.accuracy = 0

\* C6: if the target normalizes to a non-empty sequence and the transcript to the
\* empty one, every target word is reported misread and accuracy is 0.0.
C6_EmptyTranscript ==
    (Answered /\ TWords # <<>> /\ RWords = <<>>)
        => (Len(Report.words) = Len(TWords) /\ AllStatus("misread") /\ Report.accuracy = 0)

\* C6's case: a target of two words or more and a transcript without a word
C6_Witness ==
    /\ Answered
    /\ Len(TWords) >= 2
    /\ RWords = <<>>
    /\ Len(Report.words) >= 2

\* C8: accuracy lies in [0.0, 100.0]: the ok entries are never more than the
\* entries, and accuracy is 100 * ok / max(1, entries) to the nearest tenth.
C8_AccuracyInRange ==
    Answered =>
        LET ok == Cardinality(OkPositions)
            d == Max(1, Len(Report.words))
            diff == Report.accuracy * d - 1000 * ok
        IN  /\ Report.accuracy >= 0
            /\ Report.accuracy <= 1000
            /\ ok <= Len(Report.words)
            /\ 2 * diff <= d
            /\ -2 * diff <= d

\* C8's case: an accuracy strictly inside the range that the rounding moved
C8_Witness ==
    /\ Answered
    /\ Report.accuracy = 667
    /\ Len(Report.words) = 3

\* a text with every letter replaced by its lowercase letter and every character
\* that is neither a word character nor whitespace removed
CaseAndPunctuationFree(s) == SelectSeq([n \in 1..Len(s) |-> ToLower(s[n])], IsKept)

\* two texts that differ only in letter case and in added or removed characters that
\* are neither word characters nor whitespace
SameButCaseAndPunctuation(s, t) == CaseAndPunctuationFree(s) = CaseAndPunctuationFree(t)

\* C7: alignment is case- and punctuation-insensitive: a target and a transcript
\* that differ from the request's only in letter case and in added or removed
\* punctuation get the same report (words, statuses and accuracy).
C7_CaseAndPunctuationInsensitive ==
    (Answered /\ Len(Target) <= MaxChars /\ Len(Transcript) <= MaxChars) =>
        \A t2 \in CharTexts :
            SameButCaseAndPunctuation(t2, Target) =>
                \A r2 \in CharTexts :
                    SameButCaseAndPunctuation(r2, Transcript) =>
                        align_words(t2, r2) = Report

RECURSIVE RefBlocks(_, _, _, _, _, _)
\* C9's reference procedure on the region T[alo:ahi], R[blo:bhi]: the target
\* positions (0-based) of the blocks it chooses
RefBlocks(T, R, alo, ahi, blo, bhi) ==
    LET IsBlock(i, j, k) == \A n \in 0..(k - 1) : T[i + n + 1] = R[j + n + 1]
        HasBlock(k) == \E i \in alo..(ahi - k) : \E j \in blo..(bhi - k) : IsBlock(i, j, k)
        kmax == Min(ahi - alo, bhi - blo)
    IN  IF kmax < 1 \/ ~HasBlock(1) THEN {}
        ELSE LET k == CHOOSE n \in 1..kmax :
                          HasBlock(n) /\ (n = kmax \/ ~HasBlock(n + 1))
                 i == CHOOSE x \in alo..(ahi - k) :
                          /\ \E j \in blo..(bhi - k) : IsBlock(x, j, k)
                          /\ \A y \in alo..(x - 1) :
                                 ~\E j \in blo..(bhi - k) : IsBlock(y, j, k)
                 j == CHOOSE x \in blo..(bhi - k) :
                          /\ IsBlock(i, x, k)
                          /\ \A y \in blo..(x - 1) : ~IsBlock(i, y, k)
             IN  (i..(i + k - 1))
                     \cup RefBlocks(T, R, alo, i, blo, j)
                     \cup RefBlocks(T, R, i + k, ahi, j + k, bhi)

\* C9: the target positions marked ok are exactly the union of the blocks of the
\* reference procedure (the longest common run of the region, ties to the lowest
\* start in T and then in R, then the regions before and after it); every other
\* target position is misread.
C9_OkIsReferenceBlocks ==
    Answered =>
        /\ Len(Report.words) = Len(TWords)
        /\ OkPositions = {i + 1 : i \in RefBlocks(TWords, RWords, 0, Len(TWords), 0, Len(RWords))}

RECURSIVE EmbedEnd(_, _, _, _, _)
\* the ok words lo..hi of the report matched one by one, in order, each to the first
\* transcript position after pos that holds it: the position of the last one, or
\* Len(R) + 1 when one of them has no position left
EmbedEnd(W, R, lo, hi, pos) ==
    IF lo > hi THEN pos
    ELSE IF lo = hi
    THEN (IF \E q \in (pos + 1)..Len(R) : R[q] = W[lo]
          THEN CHOOSE q \in (pos + 1)..Len(R) :
                   R[q] = W[lo] /\ \A x \in (pos + 1)..(q - 1) : R[x] # W[lo]
          ELSE Len(R) + 1)
    ELSE LET mid == (lo + hi) \div 2
             first == EmbedEnd(W, R, lo, mid, pos)
         IN  IF first > Len(R) THEN first ELSE EmbedEnd(W, R, mid + 1, hi, first)

\* C10: the target positions marked ok map one-to-one onto transcript positions by
\* a strictly increasing map that preserves the word: the ok words are a common
\* subsequence of target and transcript, they are at most min(len(T), len(R)), and
\* a target word that occurs nowhere in the transcript is misread.
C10_OkIsCommonSubsequence ==
    Answered =>
        LET okWords == SelectSeq(Report.words, LAMBDA w : w.status = "ok")
            W == [n \in 1..Len(okWords) |-> okWords[n].word]
        IN  /\ Len(Report.words) = Len(TWords)
            /\ EmbedEnd(W, RWords, 1, Len(W), 0) <= Len(RWords)
            /\ Len(W) <= Min(Len(TWords), Len(RWords))
            /\ \A n \in 1..Len(Report.words) :
                   Report.words[n].word \notin Range(RWords)
                       => Report.words[n].status = "misread"

\* C10's case: a target word that the transcript holds, in an order that leaves it
\* out of the common subsequence, next to a word reported ok
C10_Witness ==
    /\ Answered
    /\ \E n \in 1..Len(Report.words) :
           Report.words[n].status = "misread" /\ Report.words[n].word \in Range(RWords)
    /\ Cardinality(OkPositions) >= 2

----------------------------------------------------------------------------
(* Properties of the other handlers *)

\* the AI service's answer is failed: an HTTP status of 400 or more
UpstreamFailed == upstream.status >= 400

\* the AI service's answer is malformed: it does not parse into a JSON object
UpstreamMalformed ==
    /\ upstream.status = 200
    /\ upstream.kind \in {"not_json", "no_choices", "content_not_json",
                          "content_array", "content_null"}

\* C3: whenever the AI service's response is failed (status >= 400) or malformed,
\* /api/coach answers the fixed fallback {encouragement, tips: [], questions: []} as
\* a successful response, never an error status.
C3_CoachFallsBack ==
    (UpstreamFailed \/ UpstreamMalformed)
        => (coachReply.status = 200 /\ coachReply.body = Fallback)

\* C4: every assignment in the store was inserted by a request whose session was
\* logged in with role teacher; a request with no session or with role student
\* inserts nothing.
C4_AssignmentsByTeachersOnly ==
    \A n \in 1..Len(assignments) :
        /\ "user_id" \in DOMAIN insertedBy[n]
        /\ insertedBy[n].role = "teacher"

\* C11: submissions are keyed by (assignment_id, user_id): after any interleaving
\* of POST /api/submissions requests, two concurrent ones of one user for one
\* assignment included, the store holds at most one row for each pair.
C11_OneSubmissionPerPair ==
    \A m, n \in 1..Len(submissions) :
        (/\ submissions[m].assignment_id = submissions[n].assignment_id
         /\ submissions[m].user_id = submissions[n].user_id) => m = n

====
